---- MODULE Spec2Model ----
(***************************************************************************)
(* A model of the NitratePrediction ingestion and inspection scripts:      *)
(*   src/loadingdata.py          normalize_pi_value, get_auth,             *)
(*                               get_point_webid_by_path,                  *)
(*                               fetch_recorded_all,                       *)
(*                               pull_one_tag_to_parquet, the __main__ loop*)
(*   src/inspectingdatafiles.py  infer_median_interval_seconds,            *)
(*                               human_interval, inspect_one_file, main    *)
(* Three specifications share the module: SpecNorm (the value normalizer   *)
(* applied to one raw value), SpecLoad (the loader run) and SpecInspect    *)
(* (the diagnostics run).                                                  *)
(***************************************************************************)
EXTENDS Integers, Sequences, FiniteSets, TLC

VARIABLES
    \* ---- normalize_pi_value applied to one value (SpecNorm)
    nv,          \* the raw value v handed to normalize_pi_value
    nres,        \* what the call produced (a triple, or the exception raised)
    npc,         \* "call" before the call, "returned" after it
    \* ---- the loader run (SpecLoad)
    env,         \* PI_USERNAME / PI_PASSWORD as os.getenv sees them
    tags,        \* TAG_NAMES of this run
    samples,     \* the items the historian holds for this run
    ti,          \* position of the __main__ loop in tags (1-based)
    pc,          \* position inside pull_one_tag_to_parquet for tags[ti]
    webid,       \* local webid of pull_one_tag_to_parquet
    url,         \* local url of fetch_recorded_all
    params,      \* local params of fetch_recorded_all
    rows,        \* local rows of fetch_recorded_all
    served,      \* the page responses the historian gave for tags[ti]
    plan,        \* how many pages the historian holds for tags[ti]
    reqlog,      \* the page requests issued for tags[ti]
    netCalls,    \* number of session.get calls issued in the whole run
    df,          \* the DataFrame fetch_recorded_all returned
    store,       \* DATA/RAW: tag -> the parquet file written in this run
    printed,     \* the lines the __main__ loop printed, one per tag
    \* ---- the diagnostics run (SpecInspect)
    rawdir,      \* DATA/RAW as the diagnostics run finds it
    ipc,         \* position inside main()
    idx,         \* loop index i of main() (1-based)
    summaries,   \* local summaries of main()
    all_states,  \* local all_states of main()
    ranked,      \* local states_df after rank_in_series is assigned
    states_csv,  \* STATE_COUNTS_CSV as written
    summary_csv  \* SUMMARY_CSV as written

normVars == <<nv, nres, npc>>
loadVars == <<env, tags, samples, ti, pc, webid, url, params, rows, served,
              plan, reqlog, netCalls, df, store, printed>>
inspVars == <<rawdir, ipc, idx, summaries, all_states, ranked, states_csv,
              summary_csv>>
vars == <<normVars, loadVars, inspVars>>

(***************************************************************************)
(* Raw values as r.json() delivers them.  Every scalar has the same shape: *)
(* tag, a decimal mantissa m and exponent e (the number m * 10^e), and a   *)
(* text s.                                                                 *)
(***************************************************************************)
Scalar(tag, m, e, s) == [tag |-> tag, m |-> m, e |-> e, s |-> s]
IntV(m, e)   == Scalar("int", m, e, "")
FloatV(m, e) == Scalar("float", m, e, "")
NaN          == Scalar("float", 0, 0, "nan")
BoolV(b)     == Scalar("bool", IF b THEN 1 ELSE 0, 0, "")
TextV(s)     == Scalar("str", 0, 0, s)
None         == Scalar("none", 0, 0, "")
ListV        == Scalar("list", 0, 0, "")
CyclicV      == Scalar("list", 0, 0, "cyclic")
Missing      == Scalar("missing", 0, 0, "")
DictV(name, inner) == [tag |-> "dict", Name |-> name, Value |-> inner]

\* dict.get(key): None when the key is missing
Get(d, key) == IF d[key] = Missing THEN None ELSE d[key]

BAD_STATE_NAMES ==
    {"No Data", "Bad Input", "Configure", "Pt Created", "Shutdown", "I/O Timeout"}

\* sys.float_info.max_10_exp: the largest e with 10^e a finite float
DblMax10Exp == 308

Abs(n) == IF n < 0 THEN -n ELSE n

\* isinstance(x, str), isinstance(x, (int, float)); bool is a subclass of int
IsStr(x) == x.tag = "str"
IsNumber(x) == x.tag \in {"int", "float", "bool"}

\* float(x) for an int, bool or float x: an int beyond the float range
\* raises OverflowError; a float is returned as it is
FloatRaises(x) ==
    /\ x.tag = "int"
    /\ x.m # 0
    /\ \/ x.e > DblMax10Exp
       \/ x.e = DblMax10Exp /\ Abs(x.m) >= 2
ToFloat(x) == IF x.tag = "float" THEN x ELSE FloatV(x.m, x.e)

\* pd.to_numeric(s, errors="coerce") followed by float(num), on the texts
\* of the model: decimal literals parse, anything else coerces to NaN
ToNumeric(s) ==
    CASE s = "12.5" -> FloatV(125, -1)
      [] s = "7.2"  -> FloatV(72, -1)
      [] s = "5"    -> FloatV(5, 0)
      [] OTHER      -> NaN
NotNa(x) == x # NaN

\* json.dumps(v, default=str) raises on a circular reference
DumpsRaises(v) ==
    \/ v = CyclicV
    \/ v.tag = "dict" /\ (v.Name = CyclicV \/ v.Value = CyclicV)
\* the two serialisations, as texts that name the value they were made from
JsonText(v) == [form |-> "json", of |-> v]
StrText(v)  == [form |-> "str", of |-> v]

\* lines 34-37
ValueRaw(v) == IF DumpsRaises(v) THEN StrText(v) ELSE JsonText(v)

Triple(num, str, raw) ==
    [ok |-> TRUE, value_num |-> num, value_str |-> str, value_raw |-> raw]
Raised(exc) == [ok |-> FALSE, exc |-> exc]

NameOrNone(name) == IF IsStr(name) THEN name ELSE None

\* a faulty variant of normalize_dict: the numeric inner value is tested
\* before the bad-state names
normalize_dict_numeric_first(v, value_raw) ==
    LET name == Get(v, "Name")
        inner == Get(v, "Value")
    IN  IF IsNumber(inner) /\ ~FloatRaises(inner)
        THEN Triple(ToFloat(inner), NameOrNone(name), value_raw)
        ELSE IF IsStr(name) /\ name.s \in BAD_STATE_NAMES
             THEN Triple(NaN, name, value_raw)
             ELSE Triple(NaN, NameOrNone(name), value_raw)

\* lines 40-62: the dict branch
normalize_dict(v, value_raw) ==
    LET name == Get(v, "Name")
        inner == Get(v, "Value")
    IN  IF IsStr(name) /\ name.s \in BAD_STATE_NAMES
        THEN Triple(NaN, name, value_raw)
        ELSE IF IsNumber(inner)
        THEN IF FloatRaises(inner)
             THEN Raised("OverflowError")
             ELSE Triple(ToFloat(inner), NameOrNone(name), value_raw)
        ELSE IF IsStr(inner) /\ NotNa(ToNumeric(inner.s))
        THEN Triple(ToNumeric(inner.s), NameOrNone(name), value_raw)
        ELSE IF IsStr(name)
        THEN Triple(NaN, name, value_raw)
        ELSE Triple(NaN, None, value_raw)

\* lines 26-76
normalize_pi_value(v) ==
    LET value_raw == ValueRaw(v)
    IN  IF v.tag = "dict"
        THEN normalize_dict(v, value_raw)
        ELSE IF IsNumber(v)
        THEN IF FloatRaises(v)
             THEN Raised("OverflowError")
             ELSE Triple(ToFloat(v), None, value_raw)
        ELSE IF IsStr(v)
        THEN IF NotNa(ToNumeric(v.s))
             THEN Triple(ToNumeric(v.s), None, value_raw)
             ELSE Triple(NaN, v, value_raw)
        ELSE Triple(NaN, StrText(v), value_raw)

\* the raw values the normalizer is tried on
ScalarValues ==
    { IntV(5, 0), IntV(0, 0), IntV(1, 308), IntV(2, 308), IntV(1, 400),
      FloatV(125, -1), NaN, BoolV(TRUE),
      TextV("12.5"), TextV("7.2"), TextV("OFFLINE"), TextV("Shutdown"), TextV(""),
      None, ListV, CyclicV }
NameValues ==
    { Missing, None, IntV(5, 0), TextV("Shutdown"), TextV("No Data"),
      TextV("Sensor1"), TextV("") }
InnerValues == ScalarValues \cup {Missing, DictV(Missing, Missing)}
DictValues == { DictV(n, i) : n \in NameValues, i \in InnerValues }
RawValues == ScalarValues \cup DictValues

NoResult == [ok |-> FALSE, exc |-> "not called"]


(***************************************************************************)
(* SpecNorm: normalize_pi_value applied to one raw value.                  *)
(***************************************************************************)
NormIdle == nv = None /\ nres = NoResult /\ npc = "idle"

\* the call normalize_pi_value(nv)
Normalize ==
    /\ npc = "call"
    /\ nres' = normalize_pi_value(nv)
    /\ npc' = "returned"
    /\ UNCHANGED <<nv, loadVars, inspVars>>

(***************************************************************************)
(* The loader run.                                                         *)
(***************************************************************************)
\* bounds of the loader model
NumTags == 2
MaxPages == 3
MaxRows == 3

\* the head of TAG_NAMES (lines 188-206)
TAG_NAMES ==
    << "IowaRiver_IowaCity_NitrateLevel", "WP_WC_Nitrate_River",
       "IowaRiver_IowaCity_Flow", "IowaRiver_IowaCity_GaugeHeight" >>
\* line 209
tag_to_path(t) == <<"\\\\piserver.facilities.uiowa.edu", t>>

\* os.getenv: "<unset>" stands for None
Unset == "<unset>"
EnvValues == {Unset, "", "set"}
Truthy(s) == s \notin {Unset, ""}

\* timestamps as the historian writes them: an ISO text of a local time
\* with a UTC offset, a text that is no timestamp, or null
IsoTs(local, off) == [kind |-> "iso", local |-> local, off |-> off]
BadTs == [kind |-> "bad", local |-> 0, off |-> 0]
NoTs  == [kind |-> "none", local |-> 0, off |-> 0]
NaT   == [kind |-> "NaT", local |-> 0, off |-> 0]
\* pd.to_datetime(ts, utc=True, errors="coerce") (line 156): the UTC
\* instant of an ISO text, NaT for anything else
Instant(n) == [kind |-> "utc", local |-> n, off |-> 0]
to_datetime(ts) == IF ts.kind = "iso" THEN Instant(ts.local - ts.off) ELSE NaT

Item(ts, v) == [Timestamp |-> ts, Value |-> v]
\* what the historian may hold for a series
RichSamples ==
    { Item(IsoTs(1, 0), IntV(5, 0)),
      Item(IsoTs(2, 1), DictV(TextV("Shutdown"), IntV(5, 0))),
      Item(IsoTs(0, 0), TextV("7.2")),
      Item(NoTs, IntV(5, 0)),
      Item(BadTs, TextV("OFFLINE")),
      Item(IsoTs(2, 0), IntV(1, 400)) }
PoorSamples == { Item(IsoTs(1, 0), IntV(5, 0)) }

SeqsUpTo(S, n) == UNION { [1..k -> S] : k \in 0..n }

NoWebId == "<none>"
WebIdOf(t) == <<"WebId", t>>
\* line 112 and the Links.Next of the historian's i-th page
StreamUrl(w) == [kind |-> "recorded", webid |-> w, page |-> 1]
NextUrl(w, i) == [kind |-> "next", webid |-> w, page |-> i + 1]
NoLink == [kind |-> "none", webid |-> NoWebId, page |-> 0]
EmptyLink == [kind |-> "empty", webid |-> NoWebId, page |-> 0]
LinkTruthy(l) == l.kind \notin {"none", "empty"}
\* lines 113-118 and line 150
FirstParams == [startTime |-> "*-5y", endTime |-> "*", maxCount |-> 10000,
                selectedFields |-> "Items.Timestamp;Items.Value;Links.Next"]
NoParams == [startTime |-> "", endTime |-> "", maxCount |-> 0,
             selectedFields |-> "<None>"]

FrameColumns == <<"timestamp", "value_num", "value_str", "value_raw">>
NoFrame == [columns |-> <<>>, rows |-> <<>>]
NoFile == [exists |-> FALSE, columns |-> <<>>, rows |-> <<>>]

RECURSIVE ItemCount(_)
ItemCount(pages) ==
    IF pages = <<>> THEN 0
    ELSE Len(pages[1].Items) + ItemCount(Tail(pages))

\* lines 128-141: the rows one page appends, or the exception the
\* normalizer raised on the way
RECURSIVE PageRows(_)
PageRows(items) ==
    IF items = <<>> THEN [ok |-> TRUE, rows |-> <<>>]
    ELSE LET it == items[1]
             rest == PageRows(Tail(items))
         IN  IF it.Timestamp = NoTs THEN rest
             ELSE LET n == normalize_pi_value(it.Value)
                  IN  IF ~n.ok THEN [ok |-> FALSE, rows |-> <<>>]
                      ELSE IF ~rest.ok THEN rest
                      ELSE [ok |-> TRUE,
                            rows |-> <<[timestamp |-> it.Timestamp,
                                        value_num |-> n.value_num,
                                        value_str |-> n.value_str,
                                        value_raw |-> n.value_raw]>> \o rest.rows]

\* every order of the indices S that is ascending in key; equal keys in
\* any relative order
RECURSIVE AscendingOrders(_, _)
AscendingOrders(S, key) ==
    IF S = {} THEN {<<>>}
    ELSE LET least == {i \in S : \A j \in S : key[i] <= key[j]}
         IN  UNION { { <<i>> \o o : o \in AscendingOrders(S \ {i}, key) } : i \in least }
\* the one order that keeps equal keys in index order
RECURSIVE StableOrder(_, _)
StableOrder(S, key) ==
    IF S = {} THEN <<>>
    ELSE LET first == CHOOSE i \in S :
                          \A j \in S : key[i] < key[j] \/ (key[i] = key[j] /\ i <= j)
         IN  <<first>> \o StableOrder(S \ {first}, key)
Reorder(s, order) == [k \in 1..Len(order) |-> s[order[k]]]

\* line 156: the timestamp column parsed
ParseColumn(rs) ==
    [k \in 1..Len(rs) |-> [rs[k] EXCEPT !.timestamp = to_datetime(rs[k].timestamp)]]
\* line 157: dropna(subset=["timestamp"])
DropNaT(rs) == SelectSeq(rs, LAMBDA r : r.timestamp # NaT)
\* a faulty variant of sort_values_timestamp: the rows are left as they are
sort_values_unsorted(rs) == {rs}

\* line 157: sort_values("timestamp"), whose default kind is quicksort,
\* which is not stable: every ascending order is a possible outcome
sort_values_timestamp(rs) ==
    { Reorder(rs, o) :
        o \in AscendingOrders(1..Len(rs), [k \in 1..Len(rs) |-> rs[k].timestamp.local]) }

\* lines 152-158: the frames fetch_recorded_all may return for rows
ReturnedFrames(rs) ==
    IF rs = <<>> THEN { [columns |-> FrameColumns, rows |-> <<>>] }
    ELSE { [columns |-> FrameColumns, rows |-> sorted] :
             sorted \in sort_values_timestamp(DropNaT(ParseColumn(rs))) }

\* a faulty variant of ParquetOf: tag and path are inserted into an empty
\* frame too
ParquetOf_always_insert(frame, tag_name, tag_path) ==
    [exists |-> TRUE,
     columns |-> <<"tag", "path">> \o frame.columns,
     rows |-> [k \in 1..Len(frame.rows) |->
                 [tag |-> tag_name, path |-> tag_path,
                  timestamp |-> frame.rows[k].timestamp,
                  value_num |-> frame.rows[k].value_num,
                  value_str |-> frame.rows[k].value_str,
                  value_raw |-> frame.rows[k].value_raw]]]

\* lines 176-181: the table written for tag_name
ParquetOf(frame, tag_name, tag_path) ==
    IF frame.rows # <<>>
    THEN [exists |-> TRUE,
          columns |-> <<"tag", "path">> \o frame.columns,
          rows |-> [k \in 1..Len(frame.rows) |->
                      [tag |-> tag_name, path |-> tag_path,
                       timestamp |-> frame.rows[k].timestamp,
                       value_num |-> frame.rows[k].value_num,
                       value_str |-> frame.rows[k].value_str,
                       value_raw |-> frame.rows[k].value_raw]]]
    ELSE [exists |-> TRUE, columns |-> frame.columns, rows |-> frame.rows]

LoadIdle ==
    /\ env = [user |-> Unset, pw |-> Unset]
    /\ tags = <<>> /\ samples = {} /\ ti = 1 /\ pc = "idle"
    /\ webid = NoWebId /\ url = NoLink /\ params = NoParams
    /\ rows = <<>> /\ served = <<>> /\ plan = 0 /\ reqlog = <<>>
    /\ netCalls = 0 /\ df = NoFrame
    /\ store = [t \in {} |-> NoFile] /\ printed = <<>>

\* the state at the top of the __main__ loop: one series with a rich
\* historian, or several series with a plain one
LoadInit ==
    /\ env \in [user : EnvValues, pw : EnvValues]
    /\ \/ tags = SubSeq(TAG_NAMES, 1, 1) /\ samples = RichSamples
       \/ tags = SubSeq(TAG_NAMES, 1, NumTags) /\ samples = PoorSamples
    /\ ti = 1 /\ pc = "auth"
    /\ webid = NoWebId /\ url = NoLink /\ params = NoParams
    /\ rows = <<>> /\ served = <<>> /\ plan = 0 /\ reqlog = <<>>
    /\ netCalls = 0 /\ df = NoFrame
    /\ store = [t \in {tags[k] : k \in 1..Len(tags)} |-> NoFile]
    /\ printed = <<>>

Running == ti <= Len(tags)
tag == tags[ti]

\* a faulty variant of Failed: the exception ends the loop
Failed_ends_loop(where, err) ==
    /\ printed' = Append(printed, [tag |-> tag, status |-> "FAILED",
                                   where |-> where, err |-> err])
    /\ ti' = Len(tags) + 1
    /\ pc' = "auth"

\* lines 215-216: the exception reaches the loop's handler, which prints
\* the failure and goes on with the next tag
Failed(where, err) ==
    /\ printed' = Append(printed, [tag |-> tag, status |-> "FAILED",
                                   where |-> where, err |-> err])
    /\ ti' = ti + 1
    /\ pc' = "auth"
\* lines 213-214
Saved ==
    /\ printed' = Append(printed, [tag |-> tag, status |-> "Saved",
                                   where |-> "", err |-> ""])
    /\ ti' = ti + 1
    /\ pc' = "auth"

\* the locals of a fresh call of pull_one_tag_to_parquet
FreshLocals ==
    /\ webid' = NoWebId /\ url' = NoLink /\ params' = NoParams
    /\ rows' = <<>> /\ served' = <<>> /\ plan' = 0 /\ reqlog' = <<>>
    /\ df' = NoFrame

\* a faulty variant of get_auth_raises: the password is not looked at
get_auth_raises_user_only == ~Truthy(env.user)

\* lines 78-89
get_auth_raises == ~Truthy(env.user) \/ ~Truthy(env.pw)

\* lines 168-171, get_auth returning
GetAuth ==
    /\ Running /\ pc = "auth"
    /\ ~get_auth_raises
    /\ FreshLocals
    /\ pc' = "resolve"
    /\ UNCHANGED <<normVars, inspVars, env, tags, samples, ti, netCalls, store, printed>>

\* lines 168-171, get_auth raising
GetAuthRaises ==
    /\ Running /\ pc = "auth"
    /\ get_auth_raises
    /\ FreshLocals
    /\ Failed("get_auth", "RuntimeError: Missing PI_USERNAME / PI_PASSWORD")
    /\ UNCHANGED <<normVars, inspVars, env, tags, samples, netCalls, store>>

\* lines 91-98 and 112-120: the point resolves; the historian holds
\* pages' pages for it
Resolve ==
    /\ Running /\ pc = "resolve"
    /\ netCalls' = netCalls + 1
    /\ webid' = WebIdOf(tag)
    /\ url' = StreamUrl(WebIdOf(tag))
    /\ params' = FirstParams
    /\ rows' = <<>>
    /\ \E k \in 1..MaxPages : plan' = k
    /\ pc' = "fetch"
    /\ UNCHANGED <<normVars, inspVars, env, tags, samples, ti, served, reqlog, df, store, printed>>

\* lines 93-97: the request fails, or the response has no WebId
ResolveRaises ==
    /\ Running /\ pc = "resolve"
    /\ netCalls' = netCalls + 1
    /\ \E err \in {"HTTPError", "RuntimeError: No WebId in /points response"} :
          Failed("get_point_webid_by_path", err)
    /\ UNCHANGED <<normVars, inspVars, env, tags, samples, webid, url, params, rows, served, plan,
                   reqlog, df, store>>

\* the historian's answer to the request for its next page
PageAnswers ==
    LET i == Len(served) + 1
    IN  { [Items |-> items, Next |-> next] :
            items \in SeqsUpTo(samples, MaxRows - ItemCount(served)),
            next \in IF i < plan THEN {NextUrl(webid, i)} ELSE {NoLink, EmptyLink} }

\* lines 123-150: one turn of the while loop, the normalizer raising
\* nothing
FetchPage ==
    /\ Running /\ pc = "fetch"
    /\ \E page \in PageAnswers :
          LET got == PageRows(page.Items)
          IN  /\ got.ok
              /\ served' = Append(served, page)
              /\ rows' = rows \o got.rows
              /\ IF LinkTruthy(page.Next)
                 THEN url' = page.Next /\ params' = NoParams /\ pc' = "fetch"
                 ELSE UNCHANGED <<url, params>> /\ pc' = "frame"
    /\ reqlog' = Append(reqlog, [url |-> url, params |-> params])
    /\ netCalls' = netCalls + 1
    /\ UNCHANGED <<normVars, inspVars, env, tags, samples, ti, webid, plan, df, store, printed>>

\* lines 123-134: the normalizer raises on an item of the page
FetchPageNormalizeRaises ==
    /\ Running /\ pc = "fetch"
    /\ \E page \in PageAnswers :
          /\ ~PageRows(page.Items).ok
          /\ served' = Append(served, page)
    /\ reqlog' = Append(reqlog, [url |-> url, params |-> params])
    /\ netCalls' = netCalls + 1
    /\ Failed("normalize_pi_value", "OverflowError")
    /\ UNCHANGED <<normVars, inspVars, env, tags, samples, webid, url, params, rows, plan, df, store>>

\* lines 123-124: the page request fails
FetchPageRaises ==
    /\ Running /\ pc = "fetch"
    /\ reqlog' = Append(reqlog, [url |-> url, params |-> params])
    /\ netCalls' = netCalls + 1
    /\ Failed("fetch_recorded_all", "HTTPError")
    /\ UNCHANGED <<normVars, inspVars, env, tags, samples, webid, url, params, rows, served, plan,
                   df, store>>

\* lines 152-158
ReturnFrame ==
    /\ Running /\ pc = "frame"
    /\ df' \in ReturnedFrames(rows)
    /\ pc' = "persist"
    /\ UNCHANGED <<normVars, inspVars, env, tags, samples, ti, webid, url, params, rows, served,
                   plan, reqlog, netCalls, store, printed>>

\* lines 176-182 and 214
Persist ==
    /\ Running /\ pc = "persist"
    /\ store' = [store EXCEPT ![tag] = ParquetOf(df, tag, tag_to_path(tag))]
    /\ Saved
    /\ UNCHANGED <<normVars, inspVars, env, tags, samples, webid, url, params, rows, served, plan,
                   reqlog, netCalls, df>>


(***************************************************************************)
(* The diagnostics run.                                                    *)
(***************************************************************************)
\* bounds of the diagnostics model
MaxRecs == 3
MaxLabels == 11

\* line 122: rank_in_series <= 10
TopN == 10

\* the series files DATA/RAW may hold, in the order sorted() gives them
SortedStems == <<"IowaRiver_IowaCity_NitrateLevel", "WP_WC_Nitrate_River">>
StemRank(stem) == CHOOSE k \in 1..Len(SortedStems) : SortedStems[k] = stem

\* the labels of the model, in ascending lexical order
LabelOrder ==
    << "A", "B", "L01", "L02", "L03", "L04", "L05", "L06", "L07", "L08",
       "L09", "L10", "L11", "L12", "L13", "Sensor1" >>
StairLabel(i) == LabelOrder[i + 2]

Rec(ts, num, str) == [timestamp |-> ts, value_num |-> num, value_str |-> str]
\* the records the first series file is made of
InspectSamples ==
    { Rec(Instant(0), NaN, TextV("B")),
      Rec(Instant(0), NaN, TextV("A")),
      Rec(Instant(60), FloatV(5, 0), TextV("Sensor1")),
      Rec(NaT, NaN, TextV("A")),
      Rec(Instant(180), NaN, None) }

\* a second series file with n state labels: label i occurs n+1-i times,
\* or, with tie set, the last two labels occur once each; the first
\* record of a label carries a timestamp
StairCount(n, tie, i) == IF tie /\ i = n - 1 THEN 1 ELSE n + 1 - i
StairRun(n, tie, i) ==
    [j \in 1..StairCount(n, tie, i) |->
        Rec(IF j = 1 THEN Instant(60 * i) ELSE NaT, NaN, TextV(StairLabel(i)))]
RECURSIVE StairRows(_, _, _)
StairRows(n, tie, i) ==
    IF i > n THEN <<>> ELSE StairRun(n, tie, i) \o StairRows(n, tie, i + 1)

SeriesFile(stem, columns, recs) == [stem |-> stem, columns |-> columns, rows |-> recs]
FirstFiles ==
    { SeriesFile(SortedStems[1], FrameColumns, recs) :
        recs \in SeqsUpTo(InspectSamples, MaxRecs) }
SecondFiles ==
    { SeriesFile(SortedStems[2], FrameColumns, StairRows(n, tie, 1)) :
        n \in {1, TopN, MaxLabels}, tie \in BOOLEAN }
    \cup { SeriesFile(SortedStems[2], <<"timestamp">>,
                      <<Rec(Instant(0), NaN, None), Rec(Instant(60), NaN, None)>>) }
RawDirs ==
    { [exists |-> FALSE, files |-> {}], [exists |-> TRUE, files |-> {}] }
    \cup { [exists |-> TRUE, files |-> {f}] : f \in FirstFiles }
    \cup { [exists |-> TRUE, files |-> {f, g}] : f \in FirstFiles, g \in SecondFiles }

\* line 101: sorted(RAW_DIR.glob("*.parquet"))
sorted_files(dir) ==
    LET stems == [f \in dir |-> StemRank(f.stem)]
        order == CHOOSE o \in [1..Cardinality(dir) -> dir] :
                    \A j, k \in 1..Cardinality(dir) : j < k => stems[o[j]] < stems[o[k]]
    IN  order

\* lines 44-48: a column the file lacks is all NA
Column(file, col) ==
    [k \in 1..Len(file.rows) |->
        IF col \in {file.columns[c] : c \in 1..Len(file.columns)}
        THEN file.rows[k][col]
        ELSE IF col = "timestamp" THEN NaT
        ELSE IF col = "value_num" THEN NaN
        ELSE None]

NoFloat == [absent |-> TRUE, twice |-> 0]
\* a float of seconds, held as twice its value
HalfFloat(twice) == [absent |-> FALSE, twice |-> twice]

\* ts.dropna() (line 20)
DropNa(ts) == SelectSeq(ts, LAMBDA t : t # NaT)
\* sort_values() of a column of instants or of numbers
SortedAsc(xs) ==
    Reorder(xs, StableOrder(1..Len(xs), [k \in 1..Len(xs) |-> xs[k]]))
Seconds(ts) == [k \in 1..Len(ts) |-> ts[k].local]
\* ts.diff().dropna().dt.total_seconds() (line 23)
Diff(xs) == [k \in 1..(Len(xs) - 1) |-> xs[k + 1] - xs[k]]
\* deltas.median() (line 26), doubled
Median2(deltas) ==
    LET sorted == SortedAsc(deltas)
        n == Len(deltas)
    IN  IF n % 2 = 1 THEN 2 * sorted[(n + 1) \div 2]
        ELSE sorted[n \div 2] + sorted[n \div 2 + 1]

\* a faulty variant of infer_median_interval_seconds: duplicate timestamps
\* are dropped before the differences are taken
RECURSIVE Dedup(_)
Dedup(xs) ==
    IF Len(xs) <= 1 THEN xs
    ELSE IF xs[1] = xs[2] THEN Dedup(Tail(xs))
    ELSE <<xs[1]>> \o Dedup(Tail(xs))
infer_median_distinct(ts) ==
    LET kept == Dedup(SortedAsc(Seconds(DropNa(ts))))
    IN  IF Len(kept) < 2 THEN NoFloat ELSE HalfFloat(Median2(Diff(kept)))

\* lines 16-26
infer_median_interval_seconds(ts) ==
    IF ts = <<>> THEN NoFloat
    ELSE LET kept == SortedAsc(Seconds(DropNa(ts)))
         IN  IF Len(kept) < 2 THEN NoFloat
             ELSE LET deltas == Diff(kept)
                  IN  IF deltas = <<>> THEN NoFloat
                      ELSE HalfFloat(Median2(deltas))

\* f"{seconds:.0f}": round half to even
RoundHalfEven(twice) ==
    IF twice % 2 = 0 THEN twice \div 2
    ELSE IF ((twice - 1) \div 2) % 2 = 0 THEN (twice - 1) \div 2
    ELSE (twice + 1) \div 2

\* lines 29-38; the digits of the minute, hour and day forms are not
\* worked out, the form carries the seconds it was made from
human_interval(seconds) ==
    IF seconds.absent THEN [unit |-> "NA", of |-> 0]
    ELSE IF seconds.twice < 2 * 60
    THEN [unit |-> "s", of |-> RoundHalfEven(seconds.twice)]
    ELSE IF seconds.twice < 2 * 3600 THEN [unit |-> "min", of |-> seconds.twice]
    ELSE IF seconds.twice < 2 * 86400 THEN [unit |-> "hr", of |-> seconds.twice]
    ELSE [unit |-> "d", of |-> seconds.twice]

\* every order of the set S that is descending in count; equal counts in
\* any relative order
DescendingOrders(S, count) == AscendingOrders(S, [x \in S |-> 0 - count[x]])

\* line 65-66: the labels of the records with no number and a text
StateLabels(file) ==
    LET num == Column(file, "value_num")
        str == Column(file, "value_str")
        at == {k \in 1..Len(file.rows) : num[k] = NaN /\ str[k] # None}
    IN  [k \in at |-> str[k].s]

\* lines 67-71: value_counts() orders by count descending with sort_values
\* of the default kind, which fixes no order among equal counts
state_counts(file) ==
    LET labels == StateLabels(file)
        distinct == {labels[k] : k \in DOMAIN labels}
        count == [l \in distinct |-> Cardinality({k \in DOMAIN labels : labels[k] = l})]
    IN  { [k \in 1..Len(o) |->
             [series |-> file.stem, value_str |-> o[k], count |-> count[o[k]]]] :
          o \in DescendingOrders(distinct, count) }

Min(S) == CHOOSE x \in S : \A y \in S : x <= y
Max(S) == CHOOSE x \in S : \A y \in S : x >= y

\* lines 50-59, 61, 79-93; value_num_pct and the file name are left out
summary_of(file) ==
    LET ts == Column(file, "timestamp")
        nonnull == {k \in 1..Len(ts) : ts[k] # NaT}
        instants == {ts[k].local : k \in nonnull}
        interval_sec == infer_median_interval_seconds(ts)
    IN  [series |-> file.stem,
         rows |-> Len(file.rows),
         timestamp_nonnull |-> Cardinality(nonnull),
         start_utc |-> IF nonnull = {} THEN NaT ELSE Instant(Min(instants)),
         end_utc |-> IF nonnull = {} THEN NaT ELSE Instant(Max(instants)),
         unique_timestamps |-> Cardinality(instants),
         duplicate_timestamps |-> Cardinality(nonnull) - Cardinality(instants),
         median_interval |-> human_interval(interval_sec),
         median_interval_seconds |-> interval_sec,
         value_num_nonnull |->
            Cardinality({k \in 1..Len(file.rows) : Column(file, "value_num")[k] # NaN}),
         value_str_nonnull |->
            Cardinality({k \in 1..Len(file.rows) : Column(file, "value_str")[k] # None})]

RECURSIVE Concat(_)
Concat(seqs) == IF seqs = <<>> THEN <<>> ELSE seqs[1] \o Concat(Tail(seqs))

\* a faulty variant of sort_series_count: counts ascending
sort_series_count_ascending(rs) ==
    LET byCount == Reorder(rs, StableOrder(1..Len(rs),
                        [k \in 1..Len(rs) |-> rs[k].count]))
    IN  Reorder(byCount, StableOrder(1..Len(rs),
                        [k \in 1..Len(rs) |-> StemRank(byCount[k].series)]))

\* line 120: sort_values(["series", "count"], ascending=[True, False]), a
\* sort on several columns, which keeps equal rows in their order
sort_series_count(rs) ==
    LET byCount == Reorder(rs, StableOrder(1..Len(rs),
                        [k \in 1..Len(rs) |-> 0 - rs[k].count]))
    IN  Reorder(byCount, StableOrder(1..Len(rs),
                        [k \in 1..Len(rs) |-> StemRank(byCount[k].series)]))

\* line 121: groupby("series").cumcount() + 1
with_rank(rs) ==
    [k \in 1..Len(rs) |->
        [series |-> rs[k].series, value_str |-> rs[k].value_str, count |-> rs[k].count,
         rank_in_series |->
            Cardinality({j \in 1..(k - 1) : rs[j].series = rs[k].series}) + 1]]

\* a faulty variant of keep_top: the comparison is strict
keep_top_strict(rs) == SelectSeq(rs, LAMBDA r : r.rank_in_series < TopN)

\* line 122: the rows with rank_in_series <= 10
keep_top(rs) == SelectSeq(rs, LAMBDA r : r.rank_in_series <= TopN)

\* line 122: drop(columns=["rank_in_series"])
drop_rank(rs) ==
    [columns |-> <<"series", "value_str", "count">>,
     rows |-> [k \in 1..Len(rs) |->
                 [series |-> rs[k].series, value_str |-> rs[k].value_str,
                  count |-> rs[k].count]]]

\* line 115: sort_values(["rows"], ascending=False), of the default kind
sort_summaries(ss) ==
    { Reorder(ss, o) :
        o \in DescendingOrders(1..Len(ss), [k \in 1..Len(ss) |-> ss[k].rows]) }

NoCsv == [columns |-> <<>>, rows |-> <<>>]

InspIdle ==
    /\ rawdir = [exists |-> FALSE, files |-> {}]
    /\ ipc = "idle" /\ idx = 1 /\ summaries = <<>> /\ all_states = <<>>
    /\ ranked = <<>> /\ states_csv = NoCsv /\ summary_csv = <<>>

InspInit ==
    /\ rawdir \in RawDirs
    /\ ipc = "main" /\ idx = 1 /\ summaries = <<>> /\ all_states = <<>>
    /\ ranked = <<>> /\ states_csv = NoCsv /\ summary_csv = <<>>

files == sorted_files(rawdir.files)

\* lines 98-103: FileNotFoundError
MainRaises ==
    /\ ipc = "main"
    /\ ~rawdir.exists \/ rawdir.files = {}
    /\ ipc' = "raised"
    /\ UNCHANGED <<normVars, loadVars, rawdir, idx, summaries, all_states, ranked,
                   states_csv, summary_csv>>

\* lines 98-108
MainStart ==
    /\ ipc = "main"
    /\ rawdir.exists /\ rawdir.files # {}
    /\ ipc' = "loop"
    /\ idx' = 1 /\ summaries' = <<>> /\ all_states' = <<>>
    /\ UNCHANGED <<normVars, loadVars, rawdir, ranked, states_csv, summary_csv>>

\* lines 110-113: one turn of the loop, inspect_one_file on files[idx]
InspectFile ==
    /\ ipc = "loop" /\ idx <= Len(files)
    /\ summaries' = Append(summaries, summary_of(files[idx]))
    /\ \E states \in state_counts(files[idx]) :
          all_states' = Append(all_states, states)
    /\ idx' = idx + 1
    /\ UNCHANGED <<normVars, loadVars, rawdir, ipc, ranked, states_csv, summary_csv>>

\* lines 115-124
MainWrite ==
    /\ ipc = "loop" /\ idx > Len(files)
    /\ summary_csv' \in sort_summaries(summaries)
    /\ ranked' = with_rank(sort_series_count(Concat(all_states)))
    /\ states_csv' = drop_rank(keep_top(with_rank(sort_series_count(Concat(all_states)))))
    /\ ipc' = "done"
    /\ UNCHANGED <<normVars, loadVars, rawdir, idx, summaries, all_states>>

(***************************************************************************)
(* The specifications.                                                     *)
(***************************************************************************)
InitNorm ==
    /\ nv \in RawValues /\ nres = NoResult /\ npc = "call"
    /\ LoadIdle /\ InspIdle
NextNorm == Normalize
SpecNorm == InitNorm /\ [][NextNorm]_vars

InitLoad == NormIdle /\ LoadInit /\ InspIdle
NextLoad ==
    \/ GetAuth
    \/ GetAuthRaises
    \/ Resolve
    \/ ResolveRaises
    \/ FetchPage
    \/ FetchPageNormalizeRaises
    \/ FetchPageRaises
    \/ ReturnFrame
    \/ Persist
SpecLoad == InitLoad /\ [][NextLoad]_vars

InitInspect == NormIdle /\ LoadIdle /\ InspInit
NextInspect ==
    \/ MainRaises
    \/ MainStart
    \/ InspectFile
    \/ MainWrite
SpecInspect == InitInspect /\ [][NextInspect]_vars


(***************************************************************************)
(* Properties of the value normalizer (SpecNorm).                          *)
(***************************************************************************)
IsBadState(v) ==
    /\ v.tag = "dict"
    /\ v.Name.tag = "str"
    /\ v.Name.s \in BAD_STATE_NAMES

\* C2: a structured state whose name is a text of the bad-state set is
\* normalized to (absent, name, value_raw), whatever its inner value is.
C2_BadStateWins ==
    (npc = "returned" /\ IsBadState(nv)) =>
        /\ nres.ok
        /\ nres.value_num = NaN
        /\ nres.value_str = nv.Name
        /\ nres.value_raw.of = nv

\* the bad state {Name: "Shutdown", Value: 5} has been normalized
C2_Witness ==
    /\ npc = "returned"
    /\ nv = DictV(TextV("Shutdown"), IntV(5, 0))
    /\ nres.ok /\ nres.value_str = TextV("Shutdown")

Recognised(v) == v.tag \in {"dict", "int", "float", "bool", "str"}

\* C3: normalize_pi_value is total: every raw value yields a triple, never
\* an exception; value_raw is present in it; a value of no recognised
\* variant yields (absent, str(v), value_raw).
C3_Total ==
    npc = "returned" =>
        /\ nres.ok
        /\ nres.value_raw.of = nv
        /\ ~Recognised(nv) =>
              /\ nres.value_num = NaN
              /\ nres.value_str = StrText(nv)

(***************************************************************************)
(* Properties of the loader run (SpecLoad).                                *)
(***************************************************************************)
RECURSIVE TimestampedItems(_)
TimestampedItems(pages) ==
    IF pages = <<>> THEN <<>>
    ELSE SelectSeq(pages[1].Items, LAMBDA it : it.Timestamp # NoTs)
            \o TimestampedItems(Tail(pages))

\* the fetch of the series whose locals the state holds is over, and no
\* page request of it failed
FetchOver ==
    \/ Running /\ pc = "frame"
    \/ /\ pc = "auth" /\ ti > 1
       /\ printed[ti - 1].where = "normalize_pi_value"

\* C1: over a series of k pages of which only the last carries no
\* continuation reference, fetch_recorded_all issues exactly k page
\* requests, the first to the stream resource with its parameters, each
\* later one to the continuation reference of the response before it with
\* no parameters, and accumulates the timestamped items of all k pages in
\* page order and in-page order.
C1_Pagination ==
    FetchOver =>
        /\ Len(reqlog) = plan
        /\ \A i \in 1..Len(reqlog) :
              reqlog[i] = IF i = 1
                          THEN [url |-> StreamUrl(webid), params |-> FirstParams]
                          ELSE [url |-> served[i - 1].Next, params |-> NoParams]
        /\ LET items == TimestampedItems(served)
           IN  /\ Len(rows) = Len(items)
               /\ \A k \in 1..Len(rows) :
                     /\ rows[k].timestamp = items[k].Timestamp
                     /\ rows[k].value_raw.of = items[k].Value

\* C4: a series whose resolution or page request failed has nothing
\* persisted in the run, also when pages of it had been retrieved, and the
\* loop goes on with the next series: every series gets its line, and a
\* saved series has its file.
C4_FailureIsolated ==
    /\ ti = Len(printed) + 1
    /\ \A k \in 1..Len(printed) :
          /\ printed[k].tag = tags[k]
          /\ printed[k].status = "FAILED" => store[tags[k]] = NoFile
          /\ printed[k].status = "Saved" => store[tags[k]].exists
    /\ \A k \in (Len(printed) + 1)..Len(tags) : store[tags[k]] = NoFile

\* the first series failed on a page request after records of it had been
\* retrieved, nothing of it is on disk, and the loop is at the second series
C4_Witness ==
    /\ Running /\ ti = 2 /\ pc = "auth"
    /\ printed[1].status = "FAILED"
    /\ printed[1].where = "fetch_recorded_all"
    /\ rows # <<>>
    /\ store[tags[1]] = NoFile

CredentialsMissing == env.user \in {Unset, ""} \/ env.pw \in {Unset, ""}

\* C5 as stated: with the username or the password missing or empty no
\* request is issued and the error ends the run; it is not handled as the
\* failure of one series.
C5_Fatal ==
    CredentialsMissing =>
        /\ netCalls = 0
        /\ \A k \in 1..Len(printed) : printed[k].status # "FAILED"

\* C5, amended: with the username or the password missing or empty no
\* request is ever issued; get_auth raises in the pipeline of every series,
\* the loop reports each as failed and goes on, and nothing is persisted.
C5_NoRequestEverySeriesFails ==
    CredentialsMissing =>
        /\ netCalls = 0
        /\ ti = Len(printed) + 1
        /\ \A k \in 1..Len(printed) :
              printed[k].status = "FAILED" /\ printed[k].where = "get_auth"
        /\ \A t \in DOMAIN store : store[t] = NoFile

\* the run is over with the password unset and two series reported failed
C5_Witness ==
    /\ env.pw = Unset
    /\ ~Running
    /\ Len(printed) = 2
    /\ printed[2].where = "get_auth"

SeriesColumns == <<"tag", "path", "timestamp", "value_num", "value_str", "value_raw">>

\* C8 as stated: every file persisted has the six columns, also after a
\* fetch that returned no records.
C8_SixColumns ==
    \A t \in DOMAIN store : store[t].exists => store[t].columns = SeriesColumns

\* C8, amended: a file persisted with at least one record has the six
\* columns and carries the tag and its path in every row; a file persisted
\* after a fetch that returned no records has the four columns timestamp,
\* value_num, value_str, value_raw and neither tag nor path.
C8_ColumnsByEmptiness ==
    \A t \in DOMAIN store : store[t].exists =>
        IF store[t].rows # <<>>
        THEN /\ store[t].columns = SeriesColumns
             /\ \A k \in 1..Len(store[t].rows) :
                   /\ store[t].rows[k].tag = t
                   /\ store[t].rows[k].path = tag_to_path(t)
        ELSE store[t].columns = FrameColumns

\* a file was written after a fetch whose only record had no parseable
\* timestamp
C8_Witness ==
    /\ ~Running /\ Len(tags) = 1
    /\ rows # <<>>
    /\ store[tags[1]].exists /\ store[tags[1]].rows = <<>>

Occurrences(r, s) == Cardinality({k \in 1..Len(s) : s[k] = r})
Parseable(rs) == SelectSeq(rs, LAMBDA r : r.timestamp.kind = "iso")
UtcRow(r) == [r EXCEPT !.timestamp = Instant(r.timestamp.local - r.timestamp.off)]

\* C10 as stated: the returned records have no null or unparseable
\* timestamp, are ascending by timestamp, keep duplicates, and records of
\* equal timestamp keep the order they were retrieved in.
C10_StableSorted ==
    (Running /\ pc = "persist") =>
        LET kept == Parseable(rows)
            order == StableOrder(1..Len(kept),
                        [k \in 1..Len(kept) |-> UtcRow(kept[k]).timestamp.local])
        IN  df.rows = [k \in 1..Len(kept) |-> UtcRow(kept[order[k]])]

\* C10, amended: the returned records have no null or unparseable
\* timestamp, are ascending by timestamp and keep every record of a
\* duplicate timestamp; the order among records of equal timestamp is not
\* fixed.
C10_SortedComplete ==
    (Running /\ pc = "persist") =>
        LET kept == Parseable(rows)
        IN  /\ \A k \in 1..Len(df.rows) : df.rows[k].timestamp.kind = "utc"
            /\ \A j, k \in 1..Len(df.rows) :
                  j < k => df.rows[j].timestamp.local <= df.rows[k].timestamp.local
            /\ Len(df.rows) = Len(kept)
            /\ \A k \in 1..Len(kept) :
                  Occurrences(UtcRow(kept[k]), df.rows)
                      = Cardinality({j \in 1..Len(kept) : UtcRow(kept[j]) = UtcRow(kept[k])})

\* two records of one instant were returned in the reverse of the order
\* they were retrieved in
C10_Witness ==
    /\ Running /\ pc = "persist"
    /\ Len(rows) = 2 /\ Len(df.rows) = 2
    /\ df.rows[1].timestamp = df.rows[2].timestamp
    /\ df.rows[1] = UtcRow(rows[2])
    /\ df.rows[2] = UtcRow(rows[1])
    /\ rows[1] # rows[2]


(***************************************************************************)
(* Properties of the diagnostics run (SpecInspect).                        *)
(***************************************************************************)
FileOf(stem) == CHOOSE f \in rawdir.files : f.stem = stem
HasColumn(f, col) == \E c \in 1..Len(f.columns) : f.columns[c] = col
LabelRank(l) == CHOOSE k \in 1..Len(LabelOrder) : LabelOrder[k] = l

\* the records of f that count as states: no number, a text
StateRecords(f) ==
    IF ~HasColumn(f, "value_str") THEN {}
    ELSE {k \in 1..Len(f.rows) :
            /\ f.rows[k].value_str # None
            /\ HasColumn(f, "value_num") => f.rows[k].value_num = NaN}
CountedLabels(f) == {f.rows[k].value_str.s : k \in StateRecords(f)}
TrueCount(f, l) == Cardinality({k \in StateRecords(f) : f.rows[k].value_str.s = l})
OfSeries(rs, stem) == SelectSeq(rs, LAMBDA r : r.series = stem)

\* C6 as stated: within a series the ranking is by count descending, and
\* rows of equal count are in ascending lexical order of the label.
C6_LexicalTieBreak ==
    ipc = "done" =>
        \A j, k \in 1..Len(ranked) :
            (j < k /\ ranked[j].series = ranked[k].series) =>
                \/ ranked[j].count > ranked[k].count
                \/ /\ ranked[j].count = ranked[k].count
                   /\ LabelRank(ranked[j].value_str) < LabelRank(ranked[k].value_str)

\* C6, amended: within a series the ranking is by count descending, every
\* counted label ranked once with its count; rows of equal count are in no
\* fixed order, so the count at each rank is the rank-th largest count of
\* the series, while the label at a rank, and which of several labels of
\* equal count survive the cut, are not determined by the counts.
C6_CountAtRank ==
    ipc = "done" =>
        /\ \A f \in rawdir.files :
              \A true \in {[l \in CountedLabels(f) |-> TrueCount(f, l)]} :
                 \A k \in 1..Len(ranked) :
                    LET r == ranked[k]
                    IN  r.series = f.stem =>
                          /\ r.value_str \in DOMAIN true
                          /\ r.count = true[r.value_str]
                          /\ Cardinality({l \in DOMAIN true : true[l] > r.count})
                                < r.rank_in_series
                          /\ Cardinality({l \in DOMAIN true : true[l] >= r.count})
                                >= r.rank_in_series
        /\ \A j, k \in 1..Len(ranked) :
              (j # k /\ ranked[j].series = ranked[k].series)
                  => ranked[j].value_str # ranked[k].value_str
        /\ \A f \in rawdir.files :
              Len(OfSeries(ranked, f.stem)) = Cardinality(CountedLabels(f))

\* two labels of one count sit on either side of the cut, and the one that
\* survived is the lexically later one
C6_Witness ==
    /\ ipc = "done"
    /\ \E j, k \in 1..Len(ranked) :
          /\ ranked[j].series = ranked[k].series
          /\ ranked[j].count = ranked[k].count
          /\ ranked[j].rank_in_series = TopN
          /\ ranked[k].rank_in_series = TopN + 1
          /\ LabelRank(ranked[j].value_str) > LabelRank(ranked[k].value_str)
          /\ \E w \in 1..Len(states_csv.rows) :
                states_csv.rows[w].value_str = ranked[j].value_str

\* C7 as stated: every row of the state-count table written carries its
\* rank_in_series.
C7_RankColumnWritten ==
    ipc = "done" =>
        \E c \in 1..Len(states_csv.columns) : states_csv.columns[c] = "rank_in_series"

\* C7, amended: the state-count table written has the columns series,
\* value_str, count and no rank_in_series, which is dropped before the
\* write; for every series its rows are, in rank order, the rows ranked
\* 1..N with N = min(10, number of distinct labels counted for the series);
\* no series has more than 10 rows.
C7_TopRanksWritten ==
    ipc = "done" =>
        /\ states_csv.columns = <<"series", "value_str", "count">>
        /\ \A f \in rawdir.files :
              LET rk == OfSeries(ranked, f.stem)
                  wr == OfSeries(states_csv.rows, f.stem)
                  labels == Cardinality(CountedLabels(f))
                  N == IF labels < TopN THEN labels ELSE TopN
              IN  /\ Len(wr) = N
                  /\ Len(rk) = labels
                  /\ \A k \in 1..Len(rk) : rk[k].rank_in_series = k
                  /\ \A k \in 1..N :
                        wr[k] = [series |-> rk[k].series,
                                 value_str |-> rk[k].value_str,
                                 count |-> rk[k].count]

\* a series with more than 10 labels was ranked and 10 of its rows written
C7_Witness ==
    /\ ipc = "done"
    /\ \E f \in rawdir.files :
          /\ Len(OfSeries(ranked, f.stem)) > TopN
          /\ Len(OfSeries(states_csv.rows, f.stem)) = TopN

\* the k-th smallest member of the sequence xs
KthSmallest(xs, k) ==
    CHOOSE x \in {xs[i] : i \in 1..Len(xs)} :
        /\ Cardinality({i \in 1..Len(xs) : xs[i] < x}) < k
        /\ k <= Cardinality({i \in 1..Len(xs) : xs[i] <= x})
\* the gaps between neighbours of xs in ascending order
GapsOf(xs) == [p \in 1..(Len(xs) - 1) |-> KthSmallest(xs, p + 1) - KthSmallest(xs, p)]
\* twice the median of the sequence gs
TwiceMedian(gs) ==
    IF Len(gs) % 2 = 1 THEN 2 * KthSmallest(gs, (Len(gs) + 1) \div 2)
    ELSE KthSmallest(gs, Len(gs) \div 2) + KthSmallest(gs, Len(gs) \div 2 + 1)

\* the non-null timestamps of f, in seconds, in file order
NonNullSeconds(f) ==
    LET kept == SelectSeq(f.rows, LAMBDA r : r.timestamp # NaT)
    IN  [k \in 1..Len(kept) |-> kept[k].timestamp.local]
\* the distinct members of xs, ascending
RECURSIVE AscendingSet(_)
AscendingSet(S) ==
    IF S = {} THEN <<>>
    ELSE LET least == CHOOSE x \in S : \A y \in S : x <= y
         IN  <<least>> \o AscendingSet(S \ {least})
Distinct(xs) == AscendingSet({xs[i] : i \in 1..Len(xs)})

Inspected == IF ipc \in {"loop", "done"} THEN 1..Len(summaries) ELSE {}

\* C9 as stated: the median sampling interval is taken over the distinct
\* non-null timestamps and is absent, reported as "NA", when there are
\* fewer than two of them.
C9_MedianOfDistinct ==
    \A k \in Inspected :
        LET ts == Distinct(NonNullSeconds(FileOf(summaries[k].series)))
        IN  /\ summaries[k].median_interval_seconds =
                  IF Len(ts) < 2 THEN NoFloat ELSE HalfFloat(TwiceMedian(GapsOf(ts)))
            /\ Len(ts) < 2 => summaries[k].median_interval.unit = "NA"

\* C9, amended: the median sampling interval is taken over all non-null
\* timestamps, duplicates included: they are sorted ascending, consecutive
\* differences are taken, a duplicate contributing a gap of zero, and the
\* median of the differences is returned; it is absent, and reported as
\* "NA", exactly when the series has fewer than two non-null timestamps.
C9_MedianOfAll ==
    \A k \in Inspected :
        LET ts == NonNullSeconds(FileOf(summaries[k].series))
        IN  /\ summaries[k].median_interval_seconds =
                  IF Len(ts) < 2 THEN NoFloat ELSE HalfFloat(TwiceMedian(GapsOf(ts)))
            /\ summaries[k].median_interval.unit = "NA" <=> Len(ts) < 2

\* a series of two records of one timestamp was inspected: its interval
\* is zero seconds
C9_Witness ==
    \E k \in Inspected :
        /\ summaries[k].rows = 2
        /\ summaries[k].timestamp_nonnull = 2
        /\ summaries[k].duplicate_timestamps = 1
        /\ summaries[k].median_interval_seconds = HalfFloat(0)
        /\ summaries[k].median_interval = [unit |-> "s", of |-> 0]

====
